---- MODULE Spec2Model ----
(***************************************************************************)
(* Crawl task orchestrator of fastapi-scrapy-demo: AsyncSpiderRunner       *)
(* (app/spiders/spider_runner.py) with the results and stop endpoints      *)
(* (app/api/endpoints/spiders.py).                                         *)
(*                                                                         *)
(* Everything runs on one asyncio event loop, so a step of the model is    *)
(* the code between two suspension points (await) of one coroutine or one  *)
(* callback.  The Scrapy runtime (CrawlerRunner, Crawler, the crawl        *)
(* Deferred) and the Redis server are the environment: what they may do    *)
(* is a nondeterministic choice.                                           *)
(***************************************************************************)
EXTENDS Integers, Sequences, FiniteSets, TLC

\* ------------------------------------------------------------------ bounds
LaunchIds == {"t1"}              \* the uuid4 values run_spider may draw
UnknownIds == {"t0"}             \* task ids no run_spider call ever returned
TaskIds == LaunchIds \cup UnknownIds
StopCallers == {"s1", "s2", "s3"}     \* concurrent stop requests
Storers == {"w1", "w2"}          \* concurrent store_crawl_results calls
MaxStored == 2                   \* records pushed to one task's list over a run
MaxIngested == 3                 \* the same, for the watched store calls
MaxBatch == 2                    \* records in one store_crawl_results call
MaxStart == 2                    \* largest start of a results read
MaxLimit == 2                    \* largest limit of a results read
MaxClock == 3600                 \* the clock stops here
RateCallers == {"r1", "r2"}      \* concurrent requests of one client key
requests_per_minute == 2         \* RateLimiter(requests_per_minute): the ceiling
MaxRequests == 4                 \* requests of the client key in one window

\* ------------------------------------------------------- program constants
RESULTS_TTL == 3600              \* pipe.expire(redis_key, 3600)
RATE_WINDOW == 60                \* redis.setex(redis_key, 60, 1)

\* The clock advances by a whole retention window.
TickDeltas == {RESULTS_TTL}

\* The clock advances by half a retention window.
HalfTickDeltas == {RESULTS_TTL \div 2}

Terminal == {"completed", "failed", "stopped"}

\* An optional dict key: {} when the key is absent, {v} when it holds v.
Absent == {}
Some(v) == {v}

\* ------------------------------------------------------- record payloads
\* Items handed to store_crawl_results.  "a" is a plain dict, "t" holds a
\* tuple (json.dumps writes it as an array), "x" holds a value json.dumps
\* cannot serialise (it raises TypeError).
Items == {"a", "t", "x"}
Serialisable(item) == item # "x"

\* json.dumps(item): the stored string.
JsonDumps(item) ==
    CASE item = "a" -> "{a}"
      [] item = "t" -> "{[]}"
      [] OTHER -> "TypeError"

\* json.loads(string): the parsed record; an array parses as a list ("l").
JsonLoads(str) ==
    CASE str = "{a}" -> "a"
      [] str = "{[]}" -> "l"
      [] OTHER -> "JSONDecodeError"

RECURSIVE SeqsUpTo(_, _)
SeqsUpTo(S, n) ==
    IF n = 0 THEN {<<>>}
    ELSE LET shorter == SeqsUpTo(S, n - 1)
         IN  shorter \cup {Append(s, x) : s \in {q \in shorter : Len(q) = n - 1}, x \in S}

Batches == SeqsUpTo(Items, MaxBatch)

VARIABLES
    active_tasks,    \* AsyncSpiderRunner.active_tasks: task_id -> record
    launchPending,   \* _run_spider_task tasks created and not yet run
    crawlers,        \* runner.crawlers, by the task_id of their spider
    deferred,        \* per task: the crawl Deferred ("none", "active", "fired")
    scheduled,       \* _update_task_status tasks created and not yet run
    stopCall,        \* per stop request: where its stop_task coroutine is
    stopRequests,    \* tasks whose crawler was asked to stop (crawler.stop())
    results,         \* Redis: the list under crawl_results:<task_id>
    expireAt,        \* Redis: when that key expires, if it has an expiry
    redisUp,         \* Redis: whether the server answers commands
    storeLog,        \* exceptions store_crawl_results caught and logged
    rateKey,         \* Redis: the counter under rate_limit:<client_ip>, if any
    rateExpireAt,    \* Redis: when that key expires, if it has an expiry
    limiter,         \* per request: where its RateLimiter.__call__ is
    admitted,        \* requests the limiter let through since the key was created
    rejected,        \* requests answered 429 since the key was created
    runResponse,     \* per task: what the run endpoint answered, once it has
    launchError,     \* per task: the exception runner.crawl raised, if it did
    lastBatch,       \* the task and items of the pipeline a watched store call executed last
    store,           \* per store_crawl_results call: where its coroutine is
    read,            \* the get_crawl_results request: where its coroutine is
    appended,        \* history: records pushed to each task's list so far
    _redis_pool,     \* AsyncResourceManager._redis_pool: "none", or the client's state
    _db_pool,        \* AsyncResourceManager._db_pool: "none", or the pool's state
    _http_session,   \* AsyncResourceManager._http_session: "none", or the session's state
    _initialized,    \* AsyncResourceManager._initialized
    lifecycle,       \* where init_resources / close_resources is, and how the last call ended
    accessed,        \* the last accessor read: the property and what it gave
    now              \* the clock (event loop time, Redis server time)

vars == <<active_tasks, launchPending, crawlers, deferred, scheduled, stopCall, stopRequests,
          results, expireAt, redisUp, store, read, appended, storeLog,
          rateKey, rateExpireAt, limiter, admitted, rejected, runResponse, launchError,
          lastBatch, _redis_pool, _db_pool, _http_session, _initialized, lifecycle, accessed, now>>

runnerVars == <<launchPending, crawlers, deferred, scheduled, stopCall, stopRequests>>
redisVars == <<results, expireAt, redisUp>>
ioVars == <<store, read, appended, storeLog>>
limiterVars == <<rateKey, rateExpireAt, limiter, admitted, rejected>>
launchVars == <<runResponse, launchError>>
managerVars == <<_redis_pool, _db_pool, _http_session, _initialized, lifecycle, accessed>>

Registered == DOMAIN active_tasks
Status(t) == active_tasks[t].status

IdleStop == [pc |-> "idle", task_id |-> "t1", path |-> "none", result |-> "none", http |-> 0]
IdleStore == [pc |-> "idle", task_id |-> "t1", n |-> 0]
IdleRead == [pc |-> "idle", task_id |-> "t1", start |-> 0, limit |-> 1,
             raw |-> <<>>, seen |-> <<>>, stable |-> FALSE, response |-> <<>>,
             http |-> 0, at |-> Absent, prev |-> <<>>]

\* No init_resources or close_resources call is under way; outcome is how the
\* last one ended.
IdleManager(outcome) ==
    [pc |-> "idle", caller |-> "none", outcome |-> outcome, closing |-> {}]

\* The runner, the Redis server and the requests before anything was asked
\* of the service.
InitService ==
    /\ active_tasks = <<>>
    /\ launchPending = {}
    /\ crawlers = {}
    /\ deferred = [t \in TaskIds |-> "none"]
    /\ scheduled = {}
    /\ stopCall = [c \in StopCallers |-> IdleStop]
    /\ stopRequests = {}
    /\ results = [t \in TaskIds |-> <<>>]
    /\ expireAt = [t \in TaskIds |-> Absent]
    /\ redisUp = TRUE
    /\ storeLog = {}
    /\ rateKey = Absent
    /\ rateExpireAt = Absent
    /\ limiter = [c \in RateCallers |-> "idle"]
    /\ admitted = 0
    /\ rejected = 0
    /\ runResponse = [t \in TaskIds |-> <<>>]
    /\ launchError = [t \in TaskIds |-> Absent]
    /\ lastBatch = <<>>
    /\ accessed = <<>>
    /\ store = [w \in Storers |-> IdleStore]
    /\ read = IdleRead
    /\ appended = [t \in TaskIds |-> 0]
    /\ now = 0

\* The state after construction: the module-level resource_manager and
\* spider_runner exist, init_resources was not called.
Init ==
    /\ InitService
    /\ _redis_pool = "none"
    /\ _db_pool = "none"
    /\ _http_session = "none"
    /\ _initialized = FALSE
    /\ lifecycle = IdleManager("none")

\* The state in which the application starts to serve: the lifespan has
\* awaited init_resources, which returned without error.
Started ==
    /\ InitService
    /\ _redis_pool = "open"
    /\ _db_pool = "open"
    /\ _http_session = "open"
    /\ _initialized = TRUE
    /\ lifecycle = IdleManager("ok")

\* The properties redis, database and http_session: RuntimeError when the
\* field is falsy (None), else the object the field holds, open or closed.
Accessor(field) == IF field = "none" THEN "RuntimeError" ELSE field
redis == Accessor(_redis_pool)
database == Accessor(_db_pool)
http_session == Accessor(_http_session)

\* A Redis command sent through resource_manager.redis is answered: the
\* accessor gives a client and the server is up.  A client that was closed
\* with aclose() connects again for its next command.
RedisAnswers == redis # "RuntimeError" /\ redisUp


\* ------------------------------------------------------------ task registry
ErrorMsgs == {"", "boom"}        \* str(e): may be the empty string

\* The record run_spider stores for a new task (lines 32-38).
NewTaskRecord ==
    [status |-> "running", start_time |-> now, end_time |-> Absent,
     failure_reason |-> Absent, items_count |-> Absent]

\* The keys of spider_kwargs that are also parameters on the way to the
\* launch: spider_name (of run_spider) and task_id (of _run_spider_task).
SpiderKwargs == SUBSET {"spider_name", "task_id"}

\* The answer of the run endpoint: SpiderTaskResponse(task_id, "started"), or,
\* when run_spider raised, the except clause's HTTPException(500).
RunEndpoint(t, raised) ==
    IF raised THEN [http |-> 500, task_id |-> t, status |-> "error"]
    ELSE [http |-> 200, task_id |-> t, status |-> "started"]

\* _update_task_status without the write of failure_reason.
UpdateTaskStatusNoReason(tasks, t, status, result) ==
    IF t \in DOMAIN tasks
    THEN [tasks EXCEPT ![t] = [@ EXCEPT !.status = status, !.end_time = Some(now)]]
    ELSE tasks

\* _update_task_status(task_id, status, result) applied to the registry.
UpdateTaskStatus(tasks, t, status, result) ==
    IF t \in DOMAIN tasks
    THEN [tasks EXCEPT ![t] =
            [@ EXCEPT !.status = status,
                      !.end_time = Some(now),
                      !.failure_reason =
                          IF status = "failed" /\ result # "" THEN Some(result) ELSE @]]
    ELSE tasks

\* Mutant: the guard forgets the stop in progress.
CallbackIgnoredOnlyStopped(t) ==
    t \in Registered /\ Status(t) = "stopped"

\* The guard of _on_spider_success and _on_spider_error.
CallbackIgnored(t) ==
    t \in Registered /\ Status(t) \in {"stopping", "stopped"}

\* Mutant: only unknown and terminal tasks are refused.
StopRefusedTerminalOnly(t) ==
    t \notin Registered \/ Status(t) \in Terminal

\* Mutant: only unknown tasks are refused.
StopRefusedUnknownOnly(t) == t \notin Registered

\* The early return of stop_task.
StopRefused(t) ==
    t \notin Registered \/ Status(t) # "running"

\* The search of runner.crawlers for the crawler whose spider has this task_id.
FindCrawler(t) == t \in crawlers

\* Mutant: the stop is finalized without its end_time.
MarkStoppedNoEndTime(tasks, t) ==
    [tasks EXCEPT ![t] = [@ EXCEPT !.status = "stopped"]]

\* Mutant: the end_time is written but the status stays as it was.
MarkStoppedKeepStatus(tasks, t) ==
    [tasks EXCEPT ![t] = [@ EXCEPT !.end_time = Some(now)]]

\* status = "stopped" with end_time, as both branches of stop_task write it.
MarkStopped(tasks, t) ==
    [tasks EXCEPT ![t] = [@ EXCEPT !.status = "stopped", !.end_time = Some(now)]]

\* Mutant: the stop is finalized at once, before the teardown is requested.
MarkStoppingAsStopped(tasks, t) ==
    [tasks EXCEPT ![t] = [@ EXCEPT !.status = "stopped", !.end_time = Some(now)]]

\* status = "stopping" (line 129).
MarkStopping(tasks, t) ==
    [tasks EXCEPT ![t] = [@ EXCEPT !.status = "stopping"]]

\* The status endpoint's answer: 404 when the registry has no record.
GetTaskStatus(t) == IF t \in Registered THEN 200 ELSE 404

\* The stop endpoint's answer for what stop_task gave it.
StopEndpoint(result) ==
    CASE result = "true" -> 200
      [] result = "false" -> 404
      [] OTHER -> 500

\* ------------------------------------------------------------------ actions
\* The run endpoint and run_spider: a fresh uuid4, the record, the background
\* launch task.  A spider_kwargs key spider_name makes the endpoint's call of
\* run_spider raise TypeError before anything is done; a key task_id makes
\* the call self._run_spider_task(task_id, spider_name, **kwargs) raise
\* TypeError after the record was written and before asyncio.create_task.
\* Either way the endpoint answers 500.
RunSpider(t, kwargs) ==
    /\ t \notin Registered
    /\ IF "spider_name" \in kwargs
       THEN UNCHANGED <<active_tasks, launchPending, runResponse>>
       ELSE /\ active_tasks' = [x \in Registered \cup {t} |->
                                  IF x = t THEN NewTaskRecord ELSE active_tasks[x]]
            /\ launchPending' = IF "task_id" \in kwargs THEN launchPending
                                ELSE launchPending \cup {t}
            /\ runResponse' = [runResponse EXCEPT ![t] =
                                  <<RunEndpoint(t, "task_id" \in kwargs)>>]
    /\ UNCHANGED <<crawlers, deferred, scheduled, stopCall, stopRequests, redisVars, ioVars, now,
                   limiterVars, launchError, lastBatch, managerVars>>

\* _run_spider_task, runner.crawl returns the Deferred: the crawler is live.
LaunchOk(t) ==
    /\ t \in launchPending
    /\ launchPending' = launchPending \ {t}
    /\ crawlers' = crawlers \cup {t}
    /\ deferred' = [deferred EXCEPT ![t] = "active"]
    /\ UNCHANGED <<active_tasks, scheduled, stopCall, stopRequests, redisVars, ioVars, now, limiterVars, launchVars, lastBatch, managerVars>>

\* _run_spider_task, runner.crawl raises: _handle_spider_exception.
LaunchRaises(t, msg) ==
    /\ t \in launchPending
    /\ launchPending' = launchPending \ {t}
    /\ active_tasks' = UpdateTaskStatus(active_tasks, t, "failed", msg)
    /\ launchError' = [launchError EXCEPT ![t] = Some([error |-> msg, at |-> now])]
    /\ UNCHANGED <<crawlers, deferred, scheduled, stopCall, stopRequests, redisVars, ioVars, now,
                   limiterVars, runResponse, lastBatch, managerVars>>

\* The crawl Deferred fires with a result: the runner drops the crawler, then
\* _on_spider_success runs.
JobSucceeds(t) ==
    /\ deferred[t] = "active"
    /\ deferred' = [deferred EXCEPT ![t] = "fired"]
    /\ crawlers' = crawlers \ {t}
    /\ scheduled' = IF CallbackIgnored(t) THEN scheduled
                    ELSE scheduled \cup {[task_id |-> t, status |-> "completed", result |-> ""]}
    /\ UNCHANGED <<active_tasks, launchPending, stopCall, stopRequests, redisVars, ioVars, now, limiterVars, launchVars, lastBatch, managerVars>>

\* The crawl Deferred fires with a failure: _on_spider_error runs.
JobFails(t, msg) ==
    /\ deferred[t] = "active"
    /\ deferred' = [deferred EXCEPT ![t] = "fired"]
    /\ crawlers' = crawlers \ {t}
    /\ scheduled' = IF CallbackIgnored(t) THEN scheduled
                    ELSE scheduled \cup {[task_id |-> t, status |-> "failed", result |-> msg]}
    /\ UNCHANGED <<active_tasks, launchPending, stopCall, stopRequests, redisVars, ioVars, now, limiterVars, launchVars, lastBatch, managerVars>>

\* A scheduled _update_task_status task runs.
RunUpdate(u) ==
    /\ u \in scheduled
    /\ scheduled' = scheduled \ {u}
    /\ active_tasks' = UpdateTaskStatus(active_tasks, u.task_id, u.status, u.result)
    /\ UNCHANGED <<launchPending, crawlers, deferred, stopCall, stopRequests, redisVars, ioVars, now, limiterVars, launchVars, lastBatch, managerVars>>

\* stop_task up to its first suspension point, and the endpoint's answer when
\* it returns without suspending.
StopCall(c, t) ==
    /\ stopCall[c].pc = "idle"
    /\ IF StopRefused(t)
       THEN /\ stopCall' = [stopCall EXCEPT ![c] =
                   [pc |-> "done", task_id |-> t, path |-> "refused",
                    result |-> "false", http |-> StopEndpoint("false")]]
            /\ UNCHANGED <<active_tasks, stopRequests>>
       ELSE IF FindCrawler(t)
       THEN /\ active_tasks' = MarkStopping(active_tasks, t)
            /\ stopRequests' = stopRequests \cup {t}
            /\ stopCall' = [stopCall EXCEPT ![c] =
                   [pc |-> "awaiting", task_id |-> t, path |-> "teardown",
                    result |-> "none", http |-> 0]]
       ELSE /\ active_tasks' = MarkStopped(active_tasks, t)
            /\ UNCHANGED stopRequests
            /\ stopCall' = [stopCall EXCEPT ![c] =
                   [pc |-> "done", task_id |-> t, path |-> "fallback",
                    result |-> "true", http |-> StopEndpoint("true")]]
    /\ UNCHANGED <<launchPending, crawlers, deferred, scheduled, redisVars, ioVars, now, limiterVars, launchVars, lastBatch, managerVars>>

\* The Deferred of crawler.stop() resolves: the finally block, return True.
TeardownResolves(c) ==
    /\ stopCall[c].pc = "awaiting"
    /\ active_tasks' = MarkStopped(active_tasks, stopCall[c].task_id)
    /\ stopCall' = [stopCall EXCEPT ![c] =
           [@ EXCEPT !.pc = "done", !.result = "true", !.http = StopEndpoint("true")]]
    /\ UNCHANGED <<launchPending, crawlers, deferred, scheduled, stopRequests, redisVars, ioVars, now, limiterVars, launchVars, lastBatch, managerVars>>

\* The Deferred of crawler.stop() fails: the finally block, the error propagates.
TeardownRaises(c) ==
    /\ stopCall[c].pc = "awaiting"
    /\ active_tasks' = MarkStopped(active_tasks, stopCall[c].task_id)
    /\ stopCall' = [stopCall EXCEPT ![c] =
           [@ EXCEPT !.pc = "done", !.result = "raised", !.http = StopEndpoint("raised")]]
    /\ UNCHANGED <<launchPending, crawlers, deferred, scheduled, stopRequests, redisVars, ioVars, now, limiterVars, launchVars, lastBatch, managerVars>>

\* ------------------------------------------------------------ result store
\* A push at the head of the list (LPUSH), which RPUSH is not.
RpushAtHead(list, items) == [i \in 1..Len(items) |-> JsonDumps(items[i])] \o list

\* Redis RPUSH of the dumped items, in order, at the tail of the list.
Rpush(list, items) == list \o [i \in 1..Len(items) |-> JsonDumps(items[i])]

\* An expiry that is set only on a key that has none (EXPIRE ... NX).
ExpireIfNone(list, old, ttl) ==
    IF list = <<>> \/ old # Absent THEN old ELSE Some(now + ttl)

\* Redis EXPIRE: a key that does not exist (an empty list) gets no expiry.
Expire(list, old, ttl) == IF list = <<>> THEN old ELSE Some(now + ttl)

Min(a, b) == IF a < b THEN a ELSE b
Max(a, b) == IF a > b THEN a ELSE b

\* Mutant: the last index is taken as exclusive.
LrangeExclusiveEnd(list, first, last) ==
    LET hi == Min(last - 1, Len(list) - 1)
    IN  IF first > hi THEN <<>> ELSE [i \in 1..(hi - first + 1) |-> list[first + i]]

\* Redis LRANGE key first last, both ends inclusive and 0-based; the end is
\* clipped to the list.
Lrange(list, first, last) ==
    LET hi == Min(last, Len(list) - 1)
    IN  IF first > hi THEN <<>> ELSE [i \in 1..(hi - first + 1) |-> list[first + i]]

\* Redis LLEN.
Llen(list) == Len(list)

\* The value store_crawl_results writes to items_count for a batch of n items,
\* given the value the record held (line 101).
ItemsCount(old, n) == Some(n)

\* The body get_crawl_results returns (lines 66-80).
ResultsResponse(t, start, limit, raw, total) ==
    [task_id |-> t,
     items |-> [i \in 1..Len(raw) |-> JsonLoads(raw[i])],
     start |-> start, limit |-> limit, total |-> total,
     has_more |-> (start + limit < total)]

\* What stops store_crawl_results before anything is stored, if anything:
\* resource_manager.redis raising for a manager without a client (line 92),
\* else a json.dumps that raises while the pipeline is filled, else a server
\* that does not answer "await pipe.execute()".
StoreException(items) ==
    IF redis = "RuntimeError" THEN Some("RuntimeError")
    ELSE IF \E i \in 1..Len(items) : ~Serialisable(items[i]) THEN Some("TypeError")
    ELSE IF ~redisUp THEN Some("ConnectionError")
    ELSE Absent

\* store_crawl_results up to "await pipe.execute()": json.dumps of every item,
\* then the pipeline (RPUSH per item, EXPIRE) runs on the server as one
\* transaction.  An exception (json.dumps, the connection) is caught and
\* logged: nothing is stored and the call returns None as a successful one.
StoreCall(w, t, items) ==
    /\ store[w].pc = "idle"
    /\ IF StoreException(items) = Absent
       THEN /\ results' = [results EXCEPT ![t] = Rpush(@, items)]
            /\ expireAt' = [expireAt EXCEPT ![t] = Expire(results'[t], @, RESULTS_TTL)]
            /\ appended' = [appended EXCEPT ![t] = @ + Len(items)]
            /\ store' = [store EXCEPT ![w] = [pc |-> "executed", task_id |-> t, n |-> Len(items)]]
            /\ UNCHANGED storeLog
       ELSE /\ storeLog' = storeLog \cup StoreException(items)
            /\ UNCHANGED <<results, expireAt, appended, store>>
    /\ UNCHANGED <<active_tasks, runnerVars, redisUp, read, now, limiterVars, launchVars, managerVars>>

StoreExecute(w, t, items) ==
    /\ appended[t] + Len(items) <= MaxStored
    /\ StoreCall(w, t, items)
    /\ UNCHANGED lastBatch

\* The same step of a store call whose batch is kept as history.
Ingest(w, t, items) ==
    /\ appended[t] + Len(items) <= MaxIngested
    /\ StoreCall(w, t, items)
    /\ lastBatch' = IF StoreException(items) = Absent
                    THEN <<[task_id |-> t, items |-> items]>>
                    ELSE lastBatch

\* store_crawl_results after the await: items_count; for a task_id the registry
\* does not hold, the KeyError is caught and logged.
StoreFinish(w) ==
    /\ store[w].pc = "executed"
    /\ LET t == store[w].task_id
       IN  IF t \in Registered
           THEN /\ active_tasks' = [active_tasks EXCEPT ![t] =
                       [@ EXCEPT !.items_count = ItemsCount(@, store[w].n)]]
                /\ UNCHANGED storeLog
           ELSE /\ storeLog' = storeLog \cup Some("KeyError")
                /\ UNCHANGED active_tasks
    /\ store' = [store EXCEPT ![w] = IdleStore]
    /\ UNCHANGED <<runnerVars, redisVars, read, appended, now, limiterVars, launchVars, lastBatch, managerVars>>

\* The get_crawl_results coroutine once LRANGE has answered.  at and prev are
\* the history a client reading page after page keeps: when this read was
\* made, and the page read before this one if this read continues it.
AfterLrange(t, start, limit, prev, at) ==
    [pc |-> "lrange", task_id |-> t, start |-> start, limit |-> limit,
     raw |-> Lrange(results[t], start, start + limit - 1),
     seen |-> results[t], stable |-> FALSE, response |-> <<>>,
     http |-> 0, at |-> at, prev |-> prev]

\* get_crawl_results when a Redis command raises: the except clause answers
\* with HTTPException(status_code=500).
ReadFailed(t, start, limit, prev, at) ==
    [pc |-> "done", task_id |-> t, start |-> start, limit |-> limit,
     raw |-> <<>>, seen |-> <<>>, stable |-> FALSE, response |-> <<>>,
     http |-> 500, at |-> at, prev |-> prev]

\* get_crawl_results up to the answer of LRANGE.
ReadLrange(t, start, limit) ==
    /\ read.pc # "lrange"
    /\ read' = IF RedisAnswers THEN AfterLrange(t, start, limit, <<>>, Absent)
               ELSE ReadFailed(t, start, limit, <<>>, Absent)
    /\ UNCHANGED <<active_tasks, runnerVars, redisVars, store, appended, storeLog, now, limiterVars, launchVars, lastBatch, managerVars>>

\* get_crawl_results up to the answer of LRANGE, called by a client that
\* reads page after page.
ReadFirstPage(t, start, limit) ==
    /\ read.pc # "lrange"
    /\ read' = IF RedisAnswers THEN AfterLrange(t, start, limit, <<>>, Some(now))
               ELSE ReadFailed(t, start, limit, <<>>, Some(now))
    /\ UNCHANGED <<active_tasks, runnerVars, redisVars, store, appended, storeLog, now, limiterVars, launchVars, lastBatch, managerVars>>

\* The client asks for the page after the one it just read: the same task and
\* limit, start advanced by limit.
ReadNextPage ==
    /\ read.pc = "done"
    /\ read.http = 200
    /\ read.at # Absent
    /\ read.prev = <<>>
    /\ LET prev == <<[start |-> read.start, limit |-> read.limit,
                      items |-> read.response[1].items,
                      total |-> read.response[1].total, at |-> read.at]>>
       IN  read' = IF RedisAnswers
                   THEN AfterLrange(read.task_id, read.start + read.limit, read.limit,
                                    prev, Some(now))
                   ELSE ReadFailed(read.task_id, read.start + read.limit, read.limit,
                                   prev, Some(now))
    /\ UNCHANGED <<active_tasks, runnerVars, redisVars, store, appended, storeLog, now, limiterVars, launchVars, lastBatch, managerVars>>

\* get_crawl_results from the answer of LLEN to the response.
ReadLlen ==
    /\ read.pc = "lrange"
    /\ read' = IF RedisAnswers
               THEN [read EXCEPT !.pc = "done", !.raw = <<>>, !.seen = <<>>, !.http = 200,
                       !.stable = (read.seen = results[read.task_id]),
                       !.response = <<ResultsResponse(read.task_id, read.start, read.limit,
                                                      read.raw, Llen(results[read.task_id]))>>]
               ELSE ReadFailed(read.task_id, read.start, read.limit, read.prev, read.at)
    /\ UNCHANGED <<active_tasks, runnerVars, redisVars, store, appended, storeLog, now, limiterVars, launchVars, lastBatch, managerVars>>

\* Time passes; Redis drops the keys whose expiry is reached.
Expired(t, time) == \E e \in expireAt[t] : e <= time
RateExpired(time) == \E e \in rateExpireAt : e <= time
Tick(d) ==
    /\ now + d <= MaxClock
    /\ now' = now + d
    /\ results' = [t \in TaskIds |-> IF Expired(t, now') THEN <<>> ELSE results[t]]
    /\ expireAt' = [t \in TaskIds |-> IF Expired(t, now') THEN Absent ELSE expireAt[t]]
    /\ rateKey' = IF RateExpired(now') THEN Absent ELSE rateKey
    /\ rateExpireAt' = IF RateExpired(now') THEN Absent ELSE rateExpireAt
    /\ admitted' = IF RateExpired(now') THEN 0 ELSE admitted
    /\ rejected' = IF RateExpired(now') THEN 0 ELSE rejected
    /\ UNCHANGED <<active_tasks, runnerVars, redisUp, ioVars, limiter, launchVars, lastBatch, managerVars>>

\* ------------------------------------------------------------ rate limiter
\* The ceiling test of RateLimiter.__call__ with one less request let through
\* than the source's.
RateExceededAbove(current_count) == current_count > requests_per_minute

\* if current_count >= self.requests_per_minute: raise HTTPException(429)
RateExceeded(current_count) == current_count >= requests_per_minute

InFlight == {c \in RateCallers : limiter[c] \in {"setex", "incr"}}

\* RateLimiter.__call__ up to the answer of GET and the branch taken on it:
\* no key -> SETEX is sent; ceiling reached -> 429; else INCR is sent.
LimiterGet(c) ==
    /\ limiter[c] \notin {"setex", "incr"}
    /\ admitted + rejected + Cardinality(InFlight) < MaxRequests
    /\ IF rateKey = Absent
       THEN /\ limiter' = [limiter EXCEPT ![c] = "setex"]
            /\ UNCHANGED rejected
       ELSE LET current_count == CHOOSE n \in rateKey : TRUE
            IN  IF RateExceeded(current_count)
                THEN /\ limiter' = [limiter EXCEPT ![c] = "rejected"]
                     /\ rejected' = rejected + 1
                ELSE /\ limiter' = [limiter EXCEPT ![c] = "incr"]
                     /\ UNCHANGED rejected
    /\ UNCHANGED <<active_tasks, runnerVars, redisVars, ioVars, rateKey, rateExpireAt,
                   admitted, now, launchVars, lastBatch, managerVars>>

\* await redis.setex(redis_key, 60, 1) and the return: the request passes.
LimiterSetex(c) ==
    /\ limiter[c] = "setex"
    /\ rateKey' = Some(1)
    /\ rateExpireAt' = Some(now + RATE_WINDOW)
    /\ limiter' = [limiter EXCEPT ![c] = "admitted"]
    /\ admitted' = admitted + 1
    /\ UNCHANGED <<active_tasks, runnerVars, redisVars, ioVars, rejected, now, launchVars, lastBatch, managerVars>>

\* Redis INCR: a key that does not exist is created with value 1 and no expiry.
Incr(key) == IF key = Absent THEN Some(1) ELSE {n + 1 : n \in key}

\* await redis.incr(redis_key) and the return: the request passes.
LimiterIncr(c) ==
    /\ limiter[c] = "incr"
    /\ rateKey' = Incr(rateKey)
    /\ limiter' = [limiter EXCEPT ![c] = "admitted"]
    /\ admitted' = admitted + 1
    /\ UNCHANGED <<active_tasks, runnerVars, redisVars, ioVars, rateExpireAt, rejected, now, launchVars, lastBatch, managerVars>>

\* ------------------------------------------------------- resource manager
ResourceNames == {"redis", "database", "http_session"}
Property(name) ==
    CASE name = "redis" -> redis
      [] name = "database" -> database
      [] name = "http_session" -> http_session

\* close_resources, first half: one close per field that holds an object.
\* With nothing to close there is no await and the call ends here; else it
\* waits in asyncio.gather.  caller says whether init_resources called it
\* from its except clause, and so re-raises afterwards.
Field(name) ==
    CASE name = "redis" -> _redis_pool
      [] name = "database" -> _db_pool
      [] name = "http_session" -> _http_session
CloseTasks == {name \in ResourceNames : Field(name) # "none"}
BeginClose(caller) ==
    IF CloseTasks = {}
    THEN /\ _initialized' = FALSE
         /\ lifecycle' = IdleManager(IF caller = "init_resources" THEN "raised" ELSE "closed")
    ELSE /\ lifecycle' = [pc |-> "gather", caller |-> caller, outcome |-> "none",
                          closing |-> CloseTasks]
         /\ UNCHANGED _initialized

\* init_resources up to its first await: the early return when initialized;
\* redis.from_url, which raises on a config without a usable redis_url; then
\* "await asyncpg.create_pool".
InitResources(config_ok) ==
    /\ lifecycle.pc = "idle"
    /\ IF _initialized
       THEN /\ lifecycle' = IdleManager("returned")
            /\ UNCHANGED <<_redis_pool, _initialized>>
       ELSE IF config_ok
       THEN /\ _redis_pool' = "open"
            /\ lifecycle' = [pc |-> "create_pool", caller |-> "init_resources", outcome |-> "none",
                          closing |-> {}]
            /\ UNCHANGED _initialized
       ELSE /\ BeginClose("init_resources")
            /\ UNCHANGED _redis_pool
    /\ UNCHANGED <<_db_pool, _http_session, accessed>>
    /\ UNCHANGED <<active_tasks, runnerVars, redisVars, ioVars, now, limiterVars, launchVars, lastBatch>>

\* init_resources from the answer of asyncpg.create_pool: the pool, the
\* aiohttp session and _initialized = True; or, the database not answering,
\* the except clause: close_resources, then the error is raised again.
CreatePool(db_ok) ==
    /\ lifecycle.pc = "create_pool"
    /\ IF db_ok
       THEN /\ _db_pool' = "open"
            /\ _http_session' = "open"
            /\ _initialized' = TRUE
            /\ lifecycle' = IdleManager("ok")
       ELSE /\ BeginClose("init_resources")
            /\ UNCHANGED <<_db_pool, _http_session>>
    /\ UNCHANGED <<_redis_pool, accessed>>
    /\ UNCHANGED <<active_tasks, runnerVars, redisVars, ioVars, now, limiterVars, launchVars, lastBatch>>

\* close_resources as the lifespan calls it at shutdown.
CloseResources ==
    /\ lifecycle.pc = "idle"
    /\ BeginClose("close_resources")
    /\ UNCHANGED <<_redis_pool, _db_pool, _http_session, accessed>>
    /\ UNCHANGED <<active_tasks, runnerVars, redisVars, ioVars, now, limiterVars, launchVars, lastBatch>>

\* The object a field holds once its close() has run; the field itself is
\* not assigned by close_resources.
Closed(field) == IF field = "none" THEN "none" ELSE "closed"

\* One of the close tasks asyncio.gather runs (http_session.close(),
\* redis aclose(), db pool close()) ends: that object is closed.  The tasks
\* end one at a time, in the order their awaits resolve, while
\* close_resources is suspended and _initialized is what it was.
CloseTask(name) ==
    /\ lifecycle.pc = "gather"
    /\ name \in lifecycle.closing
    /\ lifecycle' = [lifecycle EXCEPT !.closing = @ \ {name}]
    /\ _redis_pool' = IF name = "redis" THEN Closed(_redis_pool) ELSE _redis_pool
    /\ _db_pool' = IF name = "database" THEN Closed(_db_pool) ELSE _db_pool
    /\ _http_session' = IF name = "http_session" THEN Closed(_http_session) ELSE _http_session
    /\ UNCHANGED <<_initialized, accessed>>
    /\ UNCHANGED <<active_tasks, runnerVars, redisVars, ioVars, now, limiterVars, launchVars, lastBatch>>

\* close_resources resumes once every gathered task has ended
\* (return_exceptions=True: nothing is raised): _initialized = False.
GatherDone ==
    /\ lifecycle.pc = "gather"
    /\ lifecycle.closing = {}
    /\ _initialized' = FALSE
    /\ lifecycle' = IdleManager(IF lifecycle.caller = "init_resources" THEN "raised" ELSE "closed")
    /\ UNCHANGED <<_redis_pool, _db_pool, _http_session, accessed>>
    /\ UNCHANGED <<active_tasks, runnerVars, redisVars, ioVars, now, limiterVars, launchVars, lastBatch>>

\* Some code reads resource_manager.redis, .database or .http_session.
Access(name) ==
    /\ accessed' = <<[property |-> name, gave |-> Property(name),
                      initialized |-> _initialized, pc |-> lifecycle.pc]>>
    /\ UNCHANGED <<_redis_pool, _db_pool, _http_session, _initialized, lifecycle>>
    /\ UNCHANGED <<active_tasks, runnerVars, redisVars, ioVars, now, limiterVars, launchVars, lastBatch>>

\* ---------------------------------------------------------- specifications
\* StoragePipeline.process_item: one item of the running crawl is stored.
PipelineItems == {"a", "x"}
ProcessItem(w, t, item) ==
    /\ deferred[t] = "active"
    /\ StoreExecute(w, t, <<item>>)

\* The orchestrator as the service runs it: tasks, crawls, stops, and the
\* pipeline storing the items of running crawls.
Next ==
    \/ \E t \in LaunchIds, kwargs \in SpiderKwargs : RunSpider(t, kwargs)
    \/ \E t \in TaskIds : LaunchOk(t)
    \/ \E t \in TaskIds, msg \in ErrorMsgs : LaunchRaises(t, msg)
    \/ \E t \in TaskIds : JobSucceeds(t)
    \/ \E t \in TaskIds, msg \in ErrorMsgs : JobFails(t, msg)
    \/ \E u \in scheduled : RunUpdate(u)
    \/ \E c \in StopCallers, t \in TaskIds : StopCall(c, t)
    \/ \E c \in StopCallers : TeardownResolves(c)
    \/ \E c \in StopCallers : TeardownRaises(c)
    \/ \E w \in Storers, t \in TaskIds, item \in PipelineItems : ProcessItem(w, t, item)
    \/ \E w \in Storers : StoreFinish(w)
    \/ \E d \in TickDeltas : Tick(d)

Spec == Started /\ [][Next]_vars

\* The same, with the scheduling the event loop guarantees: a task created
\* with asyncio.create_task runs (the launch, a status update), and a store
\* call resumes once the pipeline was executed; and the "await d" of stop_task
\* ends: a Deferred that has fired gives its result or its failure, and one
\* that has not makes the asyncio task throw RuntimeError("Task got bad
\* yield") into the coroutine at the loop's next callback.  When the crawl
\* of the Scrapy runtime ends is not guaranteed.
Launch(t) == LaunchOk(t) \/ \E msg \in ErrorMsgs : LaunchRaises(t, msg)
Teardown(c) == TeardownResolves(c) \/ TeardownRaises(c)
FairSpec ==
    /\ Spec
    /\ \A t \in LaunchIds : WF_vars(Launch(t))
    /\ WF_vars(\E u \in scheduled : RunUpdate(u))
    /\ \A w \in Storers : WF_vars(StoreFinish(w))
    /\ \A c \in StopCallers : WF_vars(Teardown(c))

\* The result store under store calls (of no item or one) and reads of any
\* window, for launched and unknown task ids.
NextStore ==
    \/ \E t \in LaunchIds : RunSpider(t, {})
    \/ \E w \in Storers, t \in Registered, items \in SeqsUpTo(Items, 1) : StoreExecute(w, t, items)
    \/ \E w \in Storers : StoreFinish(w)
    \/ \E t \in TaskIds, start \in 0..MaxStart, limit \in 1..MaxLimit : ReadLrange(t, start, limit)
    \/ ReadLlen
    \/ \E d \in TickDeltas : Tick(d)

StoreSpec == Started /\ [][NextStore]_vars

\* The result store of the launched tasks read page after page while the
\* pipeline appends records, one per call.
NextPage ==
    \/ \E t \in LaunchIds : RunSpider(t, {})
    \/ \E w \in Storers, t \in Registered, item \in Items : StoreExecute(w, t, <<item>>)
    \/ \E w \in Storers : StoreFinish(w)
    \/ \E t \in Registered, start \in 0..MaxStart, limit \in 1..MaxLimit :
          ReadFirstPage(t, start, limit)
    \/ ReadLlen
    \/ ReadNextPage
    \/ \E d \in TickDeltas : Tick(d)

PageSpec == Started /\ [][NextPage]_vars

\* Concurrent store calls on the lists of the launched tasks.
NextIngest ==
    \/ \E t \in LaunchIds : RunSpider(t, {})
    \/ \E w \in Storers, t \in Registered, items \in Batches : Ingest(w, t, items)
    \/ \E w \in Storers : StoreFinish(w)
    \/ \E d \in TickDeltas : Tick(d)

IngestSpec == Started /\ [][NextIngest]_vars

\* The result store over a retention window: store calls with one item or
\* none, and reads, at the start, in the middle and at the end of the window.
NextRetention ==
    \/ \E t \in LaunchIds : RunSpider(t, {})
    \/ \E w \in Storers, t \in Registered, items \in SeqsUpTo(Items, 1) :
          StoreExecute(w, t, items)
    \/ \E w \in Storers : StoreFinish(w)
    \/ \E t \in Registered, start \in 0..MaxStart, limit \in 1..MaxLimit :
          ReadLrange(t, start, limit)
    \/ ReadLlen
    \/ \E d \in HalfTickDeltas : Tick(d)

RetentionSpec == Started /\ [][NextRetention]_vars

\* The Redis server stops answering, and answers again.
RedisGoesDown ==
    /\ redisUp
    /\ redisUp' = FALSE
    /\ UNCHANGED <<active_tasks, runnerVars, results, expireAt, ioVars, now, limiterVars, launchVars, lastBatch, managerVars>>

RedisComesBack ==
    /\ ~redisUp
    /\ redisUp' = TRUE
    /\ UNCHANGED <<active_tasks, runnerVars, results, expireAt, ioVars, now, limiterVars, launchVars, lastBatch, managerVars>>

\* The result store with a Redis server that may be unavailable.
NextOutage ==
    \/ \E t \in LaunchIds : RunSpider(t, {})
    \/ \E w \in Storers, t \in Registered, items \in Batches : StoreExecute(w, t, items)
    \/ \E w \in Storers : StoreFinish(w)
    \/ \E t \in TaskIds, start \in 0..MaxStart, limit \in 1..MaxLimit : ReadLrange(t, start, limit)
    \/ ReadLlen
    \/ RedisGoesDown
    \/ RedisComesBack

OutageSpec == Started /\ [][NextOutage]_vars

\* The rate limiter under concurrent requests of one client key.
NextRate ==
    \/ \E c \in RateCallers : LimiterGet(c)
    \/ \E c \in RateCallers : LimiterSetex(c)
    \/ \E c \in RateCallers : LimiterIncr(c)
    \/ Tick(RATE_WINDOW)

RateSpec == Started /\ [][NextRate]_vars

\* The rate limiter under sequential requests: a request is made, and the
\* window ends, only when no other request is under way.
SequentialGet(c) == InFlight = {} /\ LimiterGet(c)
WindowEnds == InFlight = {} /\ Tick(RATE_WINDOW)
NextSeqRate ==
    \/ \E c \in RateCallers : SequentialGet(c)
    \/ \E c \in RateCallers : LimiterSetex(c)
    \/ \E c \in RateCallers : LimiterIncr(c)
    \/ WindowEnds

SeqRateSpec == Started /\ [][NextSeqRate]_vars

\* The resource manager: the lifespan's init_resources and close_resources
\* calls, one at a time, and accessor reads at any moment.
NextManager ==
    \/ \E config_ok \in BOOLEAN : InitResources(config_ok)
    \/ \E db_ok \in BOOLEAN : CreatePool(db_ok)
    \/ CloseResources
    \/ \E name \in ResourceNames : CloseTask(name)
    \/ GatherDone
    \/ \E name \in ResourceNames : Access(name)

ManagerSpec == Init /\ [][NextManager]_vars

\* ------------------------------------------------------------------ claims
StopReturnedTrue(t) ==
    \E c \in StopCallers : stopCall[c].task_id = t /\ stopCall[c].result = "true"

\* C1: once stop_task has returned True for a task, the task's status is
\* STOPPED in every later state, whatever callbacks and status updates run.
C1_AcceptedStopStaysStopped ==
    \A t \in Registered : StopReturnedTrue(t) => Status(t) = "stopped"

\* C2: no step changes the status of a task that is COMPLETED, FAILED or
\* STOPPED.
C2_TerminalIsFinal ==
    [][\A t \in Registered :
          Status(t) \in Terminal => active_tasks'[t].status = Status(t)]_vars

\* C3: a success or error callback that fires while the task is STOPPING or
\* STOPPED changes nothing of the task record and schedules no status update;
\* a stop that went through the teardown leaves the task STOPPED.
CallbackFires(t) == deferred[t] = "active" /\ deferred'[t] = "fired"
C3_CallbackIgnoredAfterStop ==
    /\ [][\A t \in Registered :
            (CallbackFires(t) /\ Status(t) \in {"stopping", "stopped"})
                => (active_tasks'[t] = active_tasks[t] /\ scheduled' = scheduled)]_vars
    /\ [](\A c \in StopCallers :
            (stopCall[c].path = "teardown" /\ stopCall[c].pc = "done")
                => /\ Status(stopCall[c].task_id) = "stopped"
                   /\ \A u \in scheduled : u.task_id # stopCall[c].task_id)

\* C3 witness: the callback has fired while the stop awaits the teardown, and
\* no status update is scheduled.
C3_Witness ==
    \E t \in Registered :
        /\ deferred[t] = "fired"
        /\ Status(t) = "stopping"
        /\ \A u \in scheduled : u.task_id # t

\* C4: end_time is set exactly when the status is terminal.
C4_EndTimeIffTerminal ==
    \A t \in Registered :
        (active_tasks[t].end_time # Absent) <=> (Status(t) \in Terminal)

\* C4 witness: a STOPPED task with its end_time next to a stop call that went
\* through STOPPING.
C4_Witness ==
    \E t \in Registered, c \in StopCallers :
        /\ Status(t) = "stopped"
        /\ active_tasks[t].end_time # Absent
        /\ stopCall[c].task_id = t
        /\ stopCall[c].path = "teardown"
\* A stop call that took the task out of RUNNING.
Accepted(c) == stopCall[c].path \in {"teardown", "fallback"}
CallsOn(t) == {c \in StopCallers : stopCall[c].pc # "idle" /\ stopCall[c].task_id = t}
StopCallStarts(c) == stopCall[c].pc = "idle" /\ stopCall'[c].pc # "idle"

\* C5 as stated: once the stop calls issued for a task have all ended and one
\* of them was accepted, exactly one of them moved the task to STOPPING and
\* returned True, and every other one returned False.
C5_OneStopThroughStoppingReturnsTrue ==
    \A t \in Registered :
        ((\A c \in CallsOn(t) : stopCall[c].pc = "done") /\ (\E c \in CallsOn(t) : Accepted(c)))
            => \E c \in CallsOn(t) :
                 /\ stopCall[c].path = "teardown"
                 /\ stopCall[c].result = "true"
                 /\ \A d \in CallsOn(t) \ {c} : stopCall[d].result = "false"

\* C5 as amended: a stop call issued for a RUNNING task is accepted, at most
\* one call per task is ever accepted, the accepted call returns True unless
\* the teardown it awaited raised, and every other call returns False.
C5_ExactlyOneStopAccepted ==
    /\ [](\A t \in TaskIds :
            /\ Cardinality({c \in CallsOn(t) : Accepted(c)}) <= 1
            /\ \A c \in CallsOn(t) :
                 /\ ~Accepted(c) => stopCall[c].result = "false"
                 /\ (Accepted(c) /\ stopCall[c].pc = "done")
                       => \/ stopCall[c].result = "true"
                          \/ stopCall[c].result = "raised" /\ stopCall[c].path = "teardown")
    /\ [][\A c \in StopCallers :
            (StopCallStarts(c) /\ stopCall'[c].task_id \in Registered
                /\ Status(stopCall'[c].task_id) = "running") => Accepted(c)']_vars

\* C5 witness: one call holds the task in STOPPING, awaiting the teardown,
\* and a second call for the same task was refused.
C5_Witness ==
    \E c, d \in StopCallers :
        /\ stopCall[c].pc = "awaiting"
        /\ stopCall[d].pc = "done"
        /\ stopCall[d].task_id = stopCall[c].task_id
        /\ stopCall[d].result = "false"

\* C6: a stop call for an unknown task or a task that is not RUNNING returns
\* False, the endpoint answers 404, and neither the registry nor the runtime
\* is touched.
C6_RefusedStopChangesNothing ==
    [][\A c \in StopCallers :
          (StopCallStarts(c)
             /\ (stopCall'[c].task_id \notin Registered
                    \/ Status(stopCall'[c].task_id) # "running"))
          => /\ stopCall'[c].result = "false"
             /\ stopCall'[c].http = 404
             /\ stopCall'[c].pc = "done"
             /\ active_tasks' = active_tasks
             /\ stopRequests' = stopRequests
             /\ UNCHANGED <<launchPending, crawlers, deferred, scheduled, redisVars>>]_vars

\* C6 witness: stop calls were refused for a task in STOPPING and for an
\* unknown task id.
C6_Witness ==
    \E c, d \in StopCallers :
        /\ stopCall[c].path = "refused"
        /\ stopCall[c].task_id \in Registered
        /\ Status(stopCall[c].task_id) = "stopping"
        /\ stopCall[d].path = "refused"
        /\ stopCall[d].task_id \notin Registered
        /\ stopCall[d].http = 404

\* C8: a task is RUNNING only once runner.crawl has been called for it.
C8_RunningOnlyAfterLaunch ==
    \A t \in Registered : Status(t) = "running" => t \notin launchPending

\* C9: when no store_crawl_results call for a task is in flight, its
\* items_count is the number of records pushed to its list so far.
C9_ItemsCountIsTotalIngested ==
    \A t \in Registered :
        ((\A w \in Storers : ~(store[w].pc = "executed" /\ store[w].task_id = t))
            /\ appended[t] > 0)
        => active_tasks[t].items_count = Some(appended[t])

\* The page the results read is specified to return for the stored list S.
ExpectedPage(S, start, limit) ==
    [i \in 1..Max(0, Min(start + limit, Len(S)) - start) |-> JsonLoads(S[start + i])]

\* C10: a results read during which the stored list S does not change returns
\* the records S[start .. min(start+limit, |S|)) in order, total = |S| and
\* has_more = (start+limit < |S|).
C10_ReadReturnsSlice ==
    [][(read.pc = "lrange" /\ read'.pc = "done" /\ read.seen = results[read.task_id])
          => LET S == results[read.task_id]
                 r == read'.response[1]
             IN  /\ r.items = ExpectedPage(S, read.start, read.limit)
                 /\ r.total = Len(S)
                 /\ r.has_more = (read.start + read.limit < Len(S))
                 /\ r.start = read.start /\ r.limit = read.limit
                 /\ r.task_id = read.task_id]_vars

\* C10 witness: a read of an unchanged list of two records with start = 1 and
\* limit = 2 returned the one record left and has_more = false.
C10_Witness ==
    /\ read.pc = "done"
    /\ read.stable
    /\ read.start = 1 /\ read.limit = 2
    /\ read.response[1].total = 2
    /\ Len(read.response[1].items) = 1
    /\ read.response[1].has_more = FALSE

\* The step in which the second of two consecutive page reads gets its LRANGE
\* answer; read'.prev holds the first page.
SecondPageRead == read.pc = "done" /\ read'.pc = "lrange" /\ read'.prev # <<>>

\* The records of the LRANGE answer, parsed as the endpoint parses them.
Parsed(raw) == [i \in 1..Len(raw) |-> JsonLoads(raw[i])]

\* C11 as stated: read(task, k, n) followed by read(task, k+n, n) together
\* return exactly the positions k .. k+2n-1 of the stored list, as far as
\* they exist, in insertion order, whatever happens between the two reads.
C11_TwoPagesCoverWindow ==
    [][SecondPageRead
          => LET p == read'.prev[1]
             IN  p.items \o Parsed(read'.raw)
                    = ExpectedPage(results[read'.task_id], p.start, 2 * p.limit)]_vars

\* C11 amended: when the list did not expire between the two reads, the first
\* page holds the positions k .. k+m-1 (m its length) and the second page the
\* positions k+n .. k+2n-1 as far as they exist, of the list as it is at the
\* second read, each in insertion order (so no position is returned twice);
\* and when the first page moreover held every position of k .. k+n-1 that
\* exists at the second read, the two pages together are exactly the
\* positions k .. k+2n-1 as far as they exist.
C11_TwoPagesDisjointInOrder ==
    [][(SecondPageRead /\ read'.prev[1].at = Some(now))
          => LET p == read'.prev[1]
                 S == results[read'.task_id]
                 m == Len(p.items)
             IN  /\ p.start + m <= Len(S) \/ m = 0
                 /\ p.items = [i \in 1..m |-> JsonLoads(S[p.start + i])]
                 /\ m <= p.limit
                 /\ Parsed(read'.raw) = ExpectedPage(S, p.start + p.limit, p.limit)
                 /\ (m = Len(ExpectedPage(S, p.start, p.limit)))
                       => p.items \o Parsed(read'.raw)
                             = ExpectedPage(S, p.start, 2 * p.limit)]_vars

\* C11 witness: read(t, 0, 1) returned the only record, a record was appended,
\* and read(t, 1, 1) returned the appended record, a different one.
C11_Witness ==
    /\ read.pc = "done"
    /\ read.prev # <<>>
    /\ read.prev[1].at = read.at
    /\ read.at # Absent
    /\ read.prev[1].start = 0 /\ read.prev[1].limit = 1
    /\ read.prev[1].total = 1 /\ read.response[1].total = 2
    /\ Len(read.prev[1].items) = 1 /\ Len(read.response[1].items) = 1
    /\ read.prev[1].items # read.response[1].items

\* C12: while the cache is unavailable a results read fails with an error its
\* caller sees, and no append returns normally with its records not stored.
\* store_crawl_results ends in one way only, by returning None: a
\* ConnectionError in its log is a call that met the outage, stored nothing
\* and returned as a successful call does.
C12_OutageIsVisibleToCaller ==
    [][/\ (~redisUp /\ read' # read) => (read'.pc = "done" /\ read'.http = 500)
       /\ "ConnectionError" \notin storeLog']_vars

\* C13: for sequential requests of one client key inside one window the
\* limiter lets exactly the first requests_per_minute requests through (the
\* counter is the number let through, and it carries the window expiry set by
\* the first) and answers 429 to every later request of the window.
C13_SequentialAdmitsExactlyCeiling ==
    /\ admitted <= requests_per_minute
    /\ rejected > 0 => admitted = requests_per_minute
    /\ rateKey = IF admitted = 0 THEN Absent ELSE Some(admitted)
    /\ admitted > 0 => /\ rateExpireAt # Absent
                       /\ \A e \in rateExpireAt : now < e /\ e <= now + RATE_WINDOW

\* C13 witness: in one window requests_per_minute requests passed and the two
\* after them were answered 429.
C13_Witness ==
    /\ admitted = requests_per_minute
    /\ rejected = 2
    /\ rateKey = Some(requests_per_minute)

\* A launch of task t has failed and no stop was accepted for t.
LaunchFailedUnstopped(t) ==
    /\ launchError[t] # Absent
    /\ \A c \in CallsOn(t) : ~Accepted(c)

\* C15 as stated: when runner.crawl raised in the background launch task and
\* no stop was accepted, the run call had answered with the task_id and no
\* error, and the task is FAILED with end_time set and failure_reason holding
\* the error.
C15_LaunchFailureRecordedWithReason ==
    \A t \in LaunchIds :
        LaunchFailedUnstopped(t)
           => /\ runResponse[t] = <<RunEndpoint(t, FALSE)>>
              /\ Status(t) = "failed"
              /\ active_tasks[t].end_time # Absent
              /\ active_tasks[t].failure_reason = {e.error : e \in launchError[t]}

\* C15 amended: as above, with end_time the time of the failure, and
\* failure_reason holding the error message when the message is not empty;
\* an exception whose message is empty leaves the record without
\* failure_reason.
C15_LaunchFailureRecorded ==
    \A t \in LaunchIds :
        LaunchFailedUnstopped(t)
           => /\ runResponse[t] = <<RunEndpoint(t, FALSE)>>
              /\ Status(t) = "failed"
              /\ active_tasks[t].end_time = {e.at : e \in launchError[t]}
              /\ active_tasks[t].failure_reason
                    = {e.error : e \in {x \in launchError[t] : x.error # ""}}

\* C15 witness: runner.crawl raised "boom" for a task no stop call was made
\* for, after the clock had advanced; the record is FAILED with that reason.
C15_Witness ==
    /\ \E e \in launchError["t1"] : e.error = "boom" /\ e.at > 0
    /\ CallsOn("t1") = {}
    /\ Status("t1") = "failed"
    /\ active_tasks["t1"].failure_reason = Some("boom")
    /\ runResponse["t1"] # <<>>

\* C16: a stop call for a RUNNING task whose crawler is not among the
\* runner's crawlers is not an error: it returns True (the endpoint answers
\* 200) without suspending and leaves the task STOPPED with end_time set.
C16_StopWithoutCrawlerFinalizes ==
    [][\A c \in StopCallers :
          (StopCallStarts(c)
             /\ stopCall'[c].task_id \in Registered
             /\ Status(stopCall'[c].task_id) = "running"
             /\ ~FindCrawler(stopCall'[c].task_id))
          => /\ stopCall'[c].pc = "done"
             /\ stopCall'[c].result = "true"
             /\ stopCall'[c].http = 200
             /\ active_tasks'[stopCall'[c].task_id].status = "stopped"
             /\ active_tasks'[stopCall'[c].task_id].end_time = Some(now)
             /\ stopRequests' = stopRequests]_vars

\* C16 witness: the crawl had already ended (its crawler is gone, the status
\* update not yet run) when a stop call found no crawler and returned True;
\* the task is STOPPED.
C16_Witness ==
    \E c \in StopCallers :
        /\ stopCall[c].path = "fallback"
        /\ stopCall[c].result = "true"
        /\ deferred[stopCall[c].task_id] = "fired"
        /\ Status(stopCall[c].task_id) = "stopped"
        /\ active_tasks[stopCall[c].task_id].end_time # Absent

\* C17: the status check of a completion or failure and its status write are
\* one atomic step: whenever the COMPLETED / FAILED write of a callback is
\* applied, the task's status is still RUNNING.
C17_TerminalWriteOnlyIfRunning ==
    [][\A u \in scheduled :
          u \notin scheduled' => Status(u.task_id) = "running"]_vars

\* Task t becomes STOPPED in this step.
EntersStopped(t) == Status(t) # "stopped" /\ active_tasks'[t].status = "stopped"

\* C18 as stated: a task enters STOPPED only from STOPPING.
C18_StoppedOnlyFromStopping ==
    [][\A t \in Registered : EntersStopped(t) => Status(t) = "stopping"]_vars

\* C18 amended: a task enters STOPPED from STOPPING, or directly from RUNNING
\* in the step of a stop call that finds no crawler for it; never from
\* COMPLETED or FAILED.
C18_StoppedFromStoppingOrUnhandledRunning ==
    [][\A t \in Registered :
          EntersStopped(t)
             => \/ Status(t) = "stopping"
                \/ /\ Status(t) = "running"
                   /\ ~FindCrawler(t)
                   /\ \E c \in StopCallers :
                         /\ StopCallStarts(c)
                         /\ stopCall'[c].task_id = t
                         /\ stopCall'[c].path = "fallback"]_vars

\* C18 witness: a stop call made before the launch task ran found no crawler
\* and moved the task from RUNNING to STOPPED; the task has never been in
\* STOPPING (no crawler was asked to stop).
C18_Witness ==
    \E c \in StopCallers :
        /\ stopCall[c].path = "fallback"
        /\ stopCall[c].task_id \in launchPending
        /\ Status(stopCall[c].task_id) = "stopped"
        /\ stopRequests = {}

\* C19: end_time is written once, at the first transition into a terminal
\* state: a record without end_time is not terminal, and an end_time once
\* written is never overwritten by a later operation.
C19_EndTimeWrittenOnce ==
    [][\A t \in Registered :
          /\ (active_tasks[t].end_time = Absent /\ active_tasks'[t].end_time # Absent)
                => (Status(t) \notin Terminal /\ active_tasks'[t].status \in Terminal)
          /\ active_tasks[t].end_time # Absent
                => active_tasks'[t].end_time = active_tasks[t].end_time]_vars

\* C20: under any interleaving of concurrent requests of one client key the
\* limiter lets at most requests_per_minute requests through in a window and
\* the counter never exceeds requests_per_minute.
C20_ConcurrentNeverExceedsCeiling ==
    /\ admitted <= requests_per_minute
    /\ \A n \in rateKey : n <= requests_per_minute

\* C14: status, stop and results requests for a task_id the registry does
\* not hold are answered 404; a results read of an unknown task_id is not
\* answered with a successful page.
C14_UnknownTaskIsNotFound ==
    /\ \A t \in TaskIds \ Registered : GetTaskStatus(t) = 404
    /\ \A c \in StopCallers :
          (stopCall[c].pc = "done" /\ stopCall[c].task_id \notin Registered)
             => stopCall[c].http = 404
    /\ (read.pc = "done" /\ read.task_id \notin Registered) => read.http = 404

\* C21: every rate-limit counter that exists carries a pending expiry, under
\* any interleaving of requests with the expiry of the key, also an expiry
\* between the read of the counter and its increment.
C21_CounterCarriesExpiry ==
    rateKey # Absent => (rateExpireAt # Absent /\ \A e \in rateExpireAt : now < e)

\* The stored strings of the batch kept as history.
Dumped(batch) == [i \in 1..Len(batch.items) |-> JsonDumps(batch.items[i])]

\* C23: the result list of a task changes only by expiry or by a store call
\* putting its whole batch, in the batch's order, after the records already
\* stored: batches are never interleaved and stored records never change.
C23_BatchesAppendedWhole ==
    [][\A t \in TaskIds :
          results'[t] # results[t]
             => \/ now' # now /\ results'[t] = <<>>
                \/ /\ lastBatch' # <<>>
                   /\ lastBatch'[1].task_id = t
                   /\ results'[t] = results[t] \o Dumped(lastBatch'[1])
                   /\ \E w \in Storers :
                         /\ store[w].pc = "idle"
                         /\ store'[w] = [pc |-> "executed", task_id |-> t,
                                         n |-> Len(lastBatch'[1].items)]]_vars

\* C23 witness: two store calls on one task are under way at once; the later
\* one's batch of two different records lies after the earlier one's record.
C23_Witness ==
    /\ \A w \in Storers : store[w].pc = "executed" /\ store[w].task_id = "t1"
    /\ \E w \in Storers : store[w].n = 1
    /\ lastBatch # <<>>
    /\ Len(lastBatch[1].items) = 2
    /\ lastBatch[1].items[1] # lastBatch[1].items[2]
    /\ Len(results["t1"]) = 3
    /\ results["t1"][2] = JsonDumps(lastBatch[1].items[1])
    /\ results["t1"][3] = JsonDumps(lastBatch[1].items[2])

\* A store call executes its pipeline on the list of task t in this step.
StoresOn(t) ==
    \E w \in Storers :
        store[w].pc = "idle" /\ store'[w].pc = "executed" /\ store'[w].task_id = t

\* C22: the expiry of a task's result list is set only by a store call, which
\* sets it to the whole retention window from now whenever the list exists
\* afterwards; apart from that it only lapses.  A results read changes
\* neither a stored list nor an expiry.
C22_ExpirySetOnlyByStore ==
    [][/\ \A t \in TaskIds :
            /\ (StoresOn(t) /\ results'[t] # <<>>)
                  => expireAt'[t] = Some(now + RESULTS_TTL)
            /\ expireAt'[t] # expireAt[t]
                  => \/ StoresOn(t)
                     \/ now' # now /\ expireAt'[t] = Absent /\ Expired(t, now')
       /\ read' # read => (results' = results /\ expireAt' = expireAt)]_vars

\* C22 witness: at the end of the first window the list holds two records
\* and expires a whole window after the middle of the first, when a store
\* call set its expiry; a read of the two records left list and expiry as
\* they are.
C22_Witness ==
    /\ now = RESULTS_TTL
    /\ Len(results["t1"]) = 2
    /\ appended["t1"] = 2
    /\ expireAt["t1"] = Some((RESULTS_TTL \div 2) + RESULTS_TTL)
    /\ read.pc = "done" /\ read.task_id = "t1"
    /\ read.response[1].total = 2

\* C24: in every reachable state a task record has a failure_reason only if
\* its status is FAILED.
C24_ReasonOnlyWhenFailed ==
    \A t \in Registered :
        active_tasks[t].failure_reason # Absent => Status(t) = "failed"

\* C24 witness: the crawl of a task ended with an error and the scheduled
\* status update has run: the record is FAILED and holds the reason.
C24_Witness ==
    /\ "t1" \in Registered
    /\ deferred["t1"] = "fired"
    /\ scheduled = {}
    /\ Status("t1") = "failed"
    /\ active_tasks["t1"].failure_reason = Some("boom")

\* C25: a stop call that finds a crawler for its task marks the task STOPPING
\* and asks the crawler to stop; while the call awaits that request the task
\* is STOPPING, not STOPPED; it is marked STOPPED in the step in which the
\* request resolves or raises, never before the request was issued.
C25_StoppedOnlyAfterTeardown ==
    [][\A c \in StopCallers :
          LET t == stopCall'[c].task_id
          IN  /\ (StopCallStarts(c) /\ t \in Registered /\ Status(t) = "running"
                     /\ FindCrawler(t))
                   => /\ active_tasks'[t].status = "stopping"
                      /\ t \in stopRequests'
                      /\ stopCall'[c].pc = "awaiting"
              /\ stopCall[c].pc = "awaiting"
                   => /\ Status(t) = "stopping"
                      /\ t \in stopRequests
              /\ (stopCall[c].pc = "awaiting" /\ stopCall'[c].pc # "awaiting")
                   => /\ active_tasks'[t].status = "stopped"
                      /\ stopCall'[c].pc = "done"
                      /\ stopCall'[c].result \in {"true", "raised"}]_vars

\* C25 witness: the crawler of a task whose crawl is still under way was
\* asked to stop, the request resolved, and the stop call returned True with
\* the task STOPPED.
C25_Witness ==
    \E c \in StopCallers :
        /\ stopCall[c].path = "teardown"
        /\ stopCall[c].result = "true"
        /\ stopCall[c].task_id \in stopRequests
        /\ deferred[stopCall[c].task_id] = "active"
        /\ Status(stopCall[c].task_id) = "stopped"

\* C26: the start operation is fire-and-forget.  In the step that registers a
\* task, run_spider has returned its task_id (the endpoint answers 200,
\* "started") with the launch only submitted: no crawler exists, no crawl
\* Deferred, no record stored.  The answer is there in every later state,
\* whatever the job does and whether or not it ever ends.
C26_StartIsFireAndForget ==
    /\ \A t \in TaskIds :
          (t \in Registered) <=> (runResponse[t] # <<>>)
    /\ [][\A t \in TaskIds :
            (t \notin Registered /\ t \in DOMAIN active_tasks')
               => /\ runResponse'[t] = <<[http |-> 200, task_id |-> t, status |-> "started"]>>
                  /\ active_tasks'[t].status = "running"
                  /\ t \in launchPending'
                  /\ t \notin crawlers'
                  /\ deferred'[t] = "none"
                  /\ results' = results]_vars

\* C27: within one successful get_crawl_results response the items and the
\* total agree: the number of items is min(limit, max(0, total - start)),
\* whatever appends to or expiry of the list interleave with the read.
C27_ItemsAgreeWithTotal ==
    (read.pc = "done" /\ read.http = 200)
       => LET page == read.response[1]
          IN  Len(page.items) = Min(page.limit, Max(0, page.total - page.start))

\* C28: when the teardown request raises while stop_task awaits it, the step
\* in which the error leaves stop_task writes STOPPED and the end_time; a task
\* whose teardown has failed is never STOPPING afterwards and keeps an
\* end_time.
C28_FailedTeardownStillFinalizes ==
    /\ \A c \in StopCallers :
          stopCall[c].result = "raised"
             => /\ stopCall[c].pc = "done"
                /\ stopCall[c].http = 500
                /\ Status(stopCall[c].task_id) # "stopping"
                /\ active_tasks[stopCall[c].task_id].end_time # Absent
    /\ [][\A c \in StopCallers :
            (stopCall[c].result # "raised" /\ stopCall'[c].result = "raised")
               => /\ stopCall[c].pc = "awaiting"
                  /\ Status(stopCall[c].task_id) = "stopping"
                  /\ active_tasks'[stopCall[c].task_id].status = "stopped"
                  /\ active_tasks'[stopCall[c].task_id].end_time = Some(now)]_vars

\* C28 witness: a stop call's teardown has raised, and the task is STOPPED
\* with its end_time.
C28_Witness ==
    \E c \in StopCallers :
        /\ stopCall[c].result = "raised"
        /\ stopCall[c].http = 500
        /\ Status(stopCall[c].task_id) = "stopped"
        /\ active_tasks[stopCall[c].task_id].end_time # Absent

\* C29: a rejected request leaves the client's counter and its expiry as
\* they were, and an admitted request that is not the first of its window adds
\* one to the counter that exists and leaves that counter's pending expiry as
\* it was.
C29_RejectionAndIncrementKeepWindow ==
    [][\A c \in RateCallers :
          /\ (limiter[c] # "rejected" /\ limiter'[c] = "rejected")
                => /\ rateKey' = rateKey
                   /\ rateExpireAt' = rateExpireAt
          /\ (limiter[c] = "incr" /\ limiter'[c] = "admitted")
                => /\ rateKey # Absent
                   /\ rateKey' = {n + 1 : n \in rateKey}
                   /\ rateExpireAt' = rateExpireAt
                   /\ rateExpireAt' # Absent]_vars

\* C30: with no init_resources or close_resources call under way, an
\* accessor gives a resource only if the manager is initialized: before
\* init_resources, after an init_resources that failed part-way and after
\* close_resources, redis, database and http_session raise their RuntimeError.
C30_AccessorsRaiseUnlessInitialized ==
    (accessed # <<>> /\ accessed[1].pc = "idle" /\ ~accessed[1].initialized)
       => accessed[1].gave = "RuntimeError"

Stopping(t) == t \in Registered /\ Status(t) = "stopping"
Stopped(t) == t \in Registered /\ Status(t) = "stopped"

====
